---- MODULE Spec2Model ----
(***************************************************************************)
(* psi_exporter: the collection pipeline of src/main.rs.                   *)
(*                                                                         *)
(* A scrape walks the cgroup tree (walkdir, pruned by is_interesting and   *)
(* filtered by is_pressure), reads and parses every pressure file into a   *)
(* service -> PsiMeasurements mapping (get_service_measurements), and      *)
(* renders the mapping as a metric snapshot (registry) under the two       *)
(* policy flags report_avg and report_zeros.                               *)
(*                                                                         *)
(* Three specifications:                                                   *)
(*   Spec           the serving loop of main(): requests, the walk step by *)
(*                  step, the filesystem changing underneath it;           *)
(*   SpecAggregate  the loop body of get_service_measurements() applied to *)
(*                  an arbitrary sequence of candidate files;              *)
(*   SpecRegistry   registry() applied to an arbitrary mapping and flags.  *)
(***************************************************************************)
EXTENDS Integers, Sequences, FiniteSets, TLC

VARIABLES
    fs,            \* the cgroup filesystem: path -> node
    pc,            \* "idle" | "walking" | "panicked" | "input" | "built"
    panicAt,       \* "none" | "walk" | "parse": the unwrap() that panicked
    start,         \* walkdir IntoIter.start: the root is still to be yielded
    stack,         \* walkdir IntoIter.stack_list: one listing per open directory
    services,      \* get_service_measurements(): the mapping being built
    snapshot,      \* the gathered metric set of the last response
    previous,      \* the metric set of the response before it
    report_avg,    \* main(): !--metrics.disable-avg
    report_zeros,  \* main(): !--metrics.silence-zeros
    requests,      \* requests taken from incoming_requests()
    responses,     \* responses produced
    walked,        \* this scrape: the entries the walk handed to is_interesting
    processed,     \* this scrape: the loop body's runs, in order: path, read, outcome
    changes,       \* filesystem changes so far
    dirOrder       \* the order in which this filesystem lists a directory

vars == <<fs, pc, panicAt, start, stack, services, snapshot, previous, report_avg,
          report_zeros, requests, responses, walked, processed, changes,
          dirOrder>>

-----------------------------------------------------------------------------
(* Bounds *)

MaxScrapes == 2
MaxFsChanges == 1
MaxCands == 2
TickMicros == 250000

-----------------------------------------------------------------------------
(* Program constants *)

PRESSURE_SUFFIX == ".pressure"
NanosPerMicro == 1000
NanosPerSec == 1000000000
PercentScale == 100

-----------------------------------------------------------------------------
(* Option<T>: None is the empty sequence, Some(x) is <<x>>. *)

None == <<>>
Some(x) == <<x>>
IsSome(o) == o # None
Unwrap(o) == o[1]

-----------------------------------------------------------------------------
(* Text of a pressure file.  A line is its whitespace-separated tokens: the *)
(* kind word, then key=value pairs.                                         *)

KV(k, v) == <<k, v>>

Line(kind, a10, a60, a300, t) ==
    <<kind, KV("avg10", a10), KV("avg60", a60), KV("avg300", a300), KV("total", t)>>

PsiKeys == {"avg10", "avg60", "avg300", "total"}

HasKey(line, k) == \E i \in 2..Len(line) : line[i][1] = k

Field(line, k) == line[CHOOSE i \in 2..Len(line) : line[i][1] = k][2]

(* line.parse::<psi::Psi>(): Err when the kind word is unknown or a key is   *)
(* missing; total (microseconds in the file) becomes a Duration, kept here   *)
(* in nanoseconds as Duration::as_nanos() reads it.                          *)
ParsePsi(line) ==
    IF Len(line) = 0 \/ line[1] \notin {"some", "full"}
       \/ \E k \in PsiKeys : ~HasKey(line, k)
    THEN [ok |-> FALSE]
    ELSE [ok |-> TRUE,
          psi |-> [line   |-> IF line[1] = "some" THEN "Some" ELSE "Full",
                   avg10  |-> Field(line, "avg10"),
                   avg60  |-> Field(line, "avg60"),
                   avg300 |-> Field(line, "avg300"),
                   total  |-> Field(line, "total") * NanosPerMicro]]

-----------------------------------------------------------------------------
(* PsiStats, PsiMeasurements *)

PsiStats(some, full) == [some |-> some, full |-> full]

DefaultStats == PsiStats(None, None)

DefaultMeasurements == [cpu |-> DefaultStats, memory |-> DefaultStats, io |-> DefaultStats]

Controllers == {"cpu", "memory", "io"}
Kinds == {"some", "full"}

EmptyMap == <<>>

(* The for loop over buf.lines(): Err at the first line that does not parse, *)
(* otherwise the last `some` record and the last `full` record.              *)
RECURSIVE ParseLines(_, _)
ParseLines(lines, acc) ==
    IF lines = <<>> THEN [ok |-> TRUE, stats |-> acc]
    ELSE LET parsed == ParsePsi(Head(lines)) IN
         IF ~parsed.ok THEN [ok |-> FALSE]
         ELSE ParseLines(Tail(lines),
                         IF parsed.psi.line = "Some"
                         THEN PsiStats(Some(parsed.psi), acc.full)
                         ELSE PsiStats(acc.some, Some(parsed.psi)))

MergeStats(old, new) ==
    PsiStats(IF IsSome(new.some) THEN new.some ELSE old.some,
             IF IsSome(new.full) THEN new.full ELSE old.full)

(* mutant: a later file fills in the record of the pair instead of replacing it *)
populate_merging(controller, measurements, measurement) ==
    CASE controller = "cpu"    ->
            [measurements EXCEPT !.cpu = MergeStats(@, measurement)]
      [] controller = "memory" ->
            [measurements EXCEPT !.memory = MergeStats(@, measurement)]
      [] controller = "io"     ->
            [measurements EXCEPT !.io = MergeStats(@, measurement)]
      [] OTHER                 -> measurements

populate_measurements(controller, measurements, measurement) ==
    CASE controller = "cpu"    -> [measurements EXCEPT !.cpu = measurement]
      [] controller = "memory" -> [measurements EXCEPT !.memory = measurement]
      [] controller = "io"     -> [measurements EXCEPT !.io = measurement]
      [] OTHER                 -> measurements

(* services.entry(dir_name).or_default() *)
EntryOrDefault(svcs, dir_name) ==
    IF dir_name \in DOMAIN svcs THEN svcs[dir_name] ELSE DefaultMeasurements

Insert(svcs, dir_name, m) ==
    [k \in (DOMAIN svcs) \cup {dir_name} |-> IF k = dir_name THEN m ELSE svcs[k]]

-----------------------------------------------------------------------------
(* registry(): the metric snapshot.  A sample is a record; its value is the  *)
(* exact quotient <<numerator, denominator>> of the f64 division.            *)

Quot(n, d) == <<n, d>>

TOTAL == "pressure_total_seconds"
AVG10 == "pressure_avg_10s_ratio"
AVG60 == "pressure_avg_60s_ratio"
AVG300 == "pressure_avg_300s_ratio"

Metrics == {TOTAL, AVG10, AVG60, AVG300}

Sample(metric, id, controller, kind, value) ==
    [metric |-> metric, id |-> id, controller |-> controller, kind |-> kind,
     value |-> value]

(* if data == None { continue; } *)
HasData(svcs, id, c, k) == IsSome(svcs[id][c][k])

DataOf(svcs, id, c, k) == Unwrap(svcs[id][c][k])

(* mutant: the counter ignores report_zeros *)
TotalEmittedNonZeroOnly(rz, data) == data.total > 0

(* mutant: the counter is never suppressed *)
TotalEmittedAlways(rz, data) == TRUE

(* if report_zeros || data.total.as_nanos() > 0 *)
TotalEmitted(rz, data) == rz \/ data.total > 0

(* mutant: report_zeros overrides report_avg *)
AvgEmittedIgnoringFlag(ra, rz, avg) == rz \/ (ra /\ avg > 0)

(* if report_avg { if report_zeros || data.avgN > 0.0 *)
AvgEmitted(ra, rz, avg) == ra /\ (rz \/ avg > 0)

(* Counter::inc_by on a child that with_label_values() has just created at 0 *)
inc_by(old, v) == old + v

(* the label combinations the three nested loops visit *)
Combos(svcs) == (DOMAIN svcs) \X Controllers \X Kinds

registry(svcs, ra, rz) ==
    LET live == {t \in Combos(svcs) : HasData(svcs, t[1], t[2], t[3])}
        d(t) == DataOf(svcs, t[1], t[2], t[3])
    IN  {Sample(TOTAL, t[1], t[2], t[3], Quot(inc_by(0, d(t).total), NanosPerSec)) :
            t \in {u \in live : TotalEmitted(rz, d(u))}}
        \cup
        {Sample(AVG10, t[1], t[2], t[3], Quot(d(t).avg10, PercentScale)) :
            t \in {u \in live : AvgEmitted(ra, rz, d(u).avg10)}}
        \cup
        {Sample(AVG60, t[1], t[2], t[3], Quot(d(t).avg60, PercentScale)) :
            t \in {u \in live : AvgEmitted(ra, rz, d(u).avg60)}}
        \cup
        {Sample(AVG300, t[1], t[2], t[3], Quot(d(t).avg300, PercentScale)) :
            t \in {u \in live : AvgEmitted(ra, rz, d(u).avg300)}}

(* the samples of one metric and one label combination *)
SamplesOf(snap, metric, id, c, k) ==
    {s \in snap : s.metric = metric /\ s.id = id /\ s.controller = c /\ s.kind = k}

LabelSamples(snap, id, c, k) ==
    {s \in snap : s.id = id /\ s.controller = c /\ s.kind = k}

-----------------------------------------------------------------------------
(* Paths.  A file name is its bytes and whether they are valid UTF-8; a path *)
(* is the sequence of names below MOUNTPOINT.                                *)

Name(s) == [bytes |-> s, utf8 |-> TRUE]
RawName(s) == [bytes |-> s, utf8 |-> FALSE]

Root == <<>>

(* DirEntry::file_name(): the last component; of the root, that of MOUNTPOINT *)
file_name(path) == IF path = Root THEN Name("cgroup") ELSE path[Len(path)]

Parent(path) == SubSeq(path, 1, Len(path) - 1)

(* OsStr::to_str() *)
to_str(name) == IF name.utf8 THEN Some(name.bytes) ELSE None

ends_with(s, suffix) ==
    Len(s) >= Len(suffix) /\ SubSeq(s, Len(s) - Len(suffix) + 1, Len(s)) = suffix

is_interesting(path) ==
    LET s == to_str(file_name(path)) IN
    IF IsSome(s)
    THEN ~(ends_with(Unwrap(s), ".mount") \/ ends_with(Unwrap(s), ".socket")
           \/ ends_with(Unwrap(s), ".scope"))
    ELSE FALSE

is_pressure(path) ==
    LET s == to_str(file_name(path)) IN
    IF IsSome(s) THEN ends_with(Unwrap(s), PRESSURE_SUFFIX) ELSE FALSE

(* Path::new("/").join(path.parent().strip_prefix(MOUNTPOINT)) as a string *)
RECURSIVE JoinNames(_)
JoinNames(dir) ==
    IF Len(dir) = 0 THEN ""
    ELSE IF Len(dir) = 1 THEN dir[1].bytes
    ELSE dir[1].bytes \o "/" \o JoinNames(Tail(dir))

dir_name(path) == "/" \o JoinNames(Parent(path))

(* the file name with PRESSURE_SUFFIX truncated *)
controller_of(path) ==
    LET s == file_name(path).bytes IN SubSeq(s, 1, Len(s) - Len(PRESSURE_SUFFIX))

-----------------------------------------------------------------------------
(* The filesystem: path -> node.                                             *)

Dir == [type |-> "dir", lines |-> <<>>, mode |-> "ok"]
File(lines) == [type |-> "file", lines |-> lines, mode |-> "ok"]
Locked(lines) == [type |-> "file", lines |-> lines, mode |-> "eacces"]

IsDir(fsys, path) == path \in DOMAIN fsys /\ fsys[path].type = "dir"

IsPrefix(p, q) == Len(p) <= Len(q) /\ SubSeq(q, 1, Len(p)) = p

(* OpenOptions::new().read(true).open(path), then read_to_string(): Err when *)
(* the path is gone or not permitted (open), or is a directory (read).       *)
OpenRead(fsys, path) ==
    IF path \notin DOMAIN fsys \/ fsys[path].mode = "eacces" THEN [ok |-> FALSE]
    ELSE IF fsys[path].type = "dir" THEN [ok |-> FALSE]
    ELSE [ok |-> TRUE, lines |-> fsys[path].lines]

(* mutant: a kind the file does not carry starts as an all-zero record *)
InitialStatsZeroed ==
    PsiStats(Some(ParsePsi(Line("some", 0, 0, 0, 0)).psi),
             Some(ParsePsi(Line("full", 0, 0, 0, 0)).psi))

(* let mut some = None; let mut full = None; *)
InitialStats == PsiStats(None, None)

(* mutant: the entry of the service is created before the file is opened *)
LoopBodyEntryFirst(svcs, path, rd) ==
    IF ~rd.ok
    THEN [outcome |-> "skip",
          services |-> Insert(svcs, dir_name(path), EntryOrDefault(svcs, dir_name(path)))]
    ELSE LET parsed == ParseLines(rd.lines, InitialStats) IN
         IF ~parsed.ok THEN [outcome |-> "panic", services |-> svcs]
         ELSE [outcome |-> "ok",
               services |-> Insert(svcs, dir_name(path),
                                populate_measurements(controller_of(path),
                                    EntryOrDefault(svcs, dir_name(path)),
                                    parsed.stats))]

(* mutant: a file with a line that does not parse is skipped *)
LoopBodySkipUnparsed(svcs, path, rd) ==
    IF ~rd.ok THEN [outcome |-> "skip", services |-> svcs]
    ELSE LET parsed == ParseLines(rd.lines, InitialStats) IN
         IF ~parsed.ok THEN [outcome |-> "skip", services |-> svcs]
         ELSE [outcome |-> "ok",
               services |-> Insert(svcs, dir_name(path),
                                populate_measurements(controller_of(path),
                                    EntryOrDefault(svcs, dir_name(path)),
                                    parsed.stats))]

(* The body of the for loop of get_service_measurements() for one yielded    *)
(* entry, given what opening and reading it returned.                        *)
LoopBody(svcs, path, rd) ==
    IF ~rd.ok THEN [outcome |-> "skip", services |-> svcs]
    ELSE LET parsed == ParseLines(rd.lines, InitialStats) IN
         IF ~parsed.ok THEN [outcome |-> "panic", services |-> svcs]
         ELSE [outcome |-> "ok",
               services |-> Insert(svcs, dir_name(path),
                                populate_measurements(controller_of(path),
                                    EntryOrDefault(svcs, dir_name(path)),
                                    parsed.stats))]

Run(path, rd, outcome) == [path |-> path, rd |-> rd, outcome |-> outcome]

-----------------------------------------------------------------------------
(* The cgroup tree the exporter starts on, and the contents of its files.    *)

SomeIdle == Line("some", 0, 0, 0, 0)
FullIdle == Line("full", 0, 0, 0, 0)
SomeBusy == Line("some", 5, 2, 1, 500000)
FullBusy == Line("full", 1, 0, 0, 250000)
Unknown  == Line("partial", 0, 0, 0, 0)

Idle      == <<SomeIdle, FullIdle>>
Busy      == <<SomeBusy, FullIdle>>
OnlySome  == <<SomeBusy>>
OnlyFull  == <<FullBusy>>
Malformed == <<SomeBusy, Unknown>>

a_slice   == Name("a.slice")
b_service == Name("b.service")
c_scope   == Name("c.scope")
x_mount   == Name("x.mount")
y_socket  == Name("y.socket")
z_scope   == Name("z.scope")
raw_slice == RawName("caf?.slice")
cpu_p     == Name("cpu.pressure")
memory_p  == Name("memory.pressure")
io_p      == Name("io.pressure")
w_p       == Name("w.pressure")
d_p       == Name("d.pressure")

(* every path of the tree, in the order read_dir lists them *)
PathSeq ==
    << Root,
       <<cpu_p>>, <<w_p>>, <<d_p>>, <<x_mount>>, <<x_mount, cpu_p>>,
       <<a_slice>>, <<a_slice, cpu_p>>, <<a_slice, memory_p>>, <<a_slice, io_p>>,
       <<a_slice, b_service>>, <<a_slice, b_service, cpu_p>>,
       <<a_slice, b_service, memory_p>>,
       <<a_slice, c_scope>>, <<a_slice, c_scope, cpu_p>>,
       <<y_socket>>, <<y_socket, io_p>>,
       <<z_scope>>, <<z_scope, memory_p>>,
       <<raw_slice>>, <<raw_slice, cpu_p>> >>

Paths == {PathSeq[i] : i \in 1..Len(PathSeq)}

InitialNode(path) ==
    CASE path = <<cpu_p>>                        -> File(OnlySome)
      [] path = <<w_p>>                          -> File(Idle)
      [] path = <<a_slice, cpu_p>>               -> File(Busy)
      [] path = <<a_slice, memory_p>>            -> File(Idle)
      [] path = <<a_slice, io_p>>                -> File(OnlyFull)
      [] path = <<a_slice, b_service, cpu_p>>    -> File(Busy)
      [] path = <<a_slice, b_service, memory_p>> -> Locked(Idle)
      [] path = <<a_slice, c_scope, cpu_p>>      -> File(Busy)
      [] path = <<x_mount, cpu_p>>               -> File(Busy)
      [] path = <<y_socket, io_p>>               -> File(Busy)
      [] path = <<z_scope, memory_p>>            -> File(Busy)
      [] path = <<raw_slice, cpu_p>>             -> File(Busy)
      [] OTHER                                   -> Dir

InitialTree == [path \in Paths |-> InitialNode(path)]

(* a kernel whose memory.pressure carries a line kind the parser does not know *)
NewerKernelTree == [InitialTree EXCEPT ![<<a_slice, memory_p>>] = File(Malformed)]

(* the same line after TickMicros more microseconds of stall *)
AdvanceLine(line) ==
    [i \in 1..Len(line) |->
        IF i > 1 /\ line[i][1] = "total" THEN KV("total", line[i][2] + TickMicros)
        ELSE IF i > 1 /\ line[i][1] = "avg10" THEN KV("avg10", line[i][2] + 1)
        ELSE line[i]]

Advance(lines) == [i \in 1..Len(lines) |-> AdvanceLine(lines[i])]

-----------------------------------------------------------------------------
(* walkdir: IntoIter with FilterEntry.                                       *)

DirEntry(fsys, path) == [path |-> path, is_dir |-> IsDir(fsys, path)]

Reverse(seq) == [i \in 1..Len(seq) |-> seq[Len(seq) + 1 - i]]

Children(fsys, dir) ==
    SelectSeq(PathSeq, LAMBDA q : q \in DOMAIN fsys /\ q # Root /\ Parent(q) = dir)

DirList(err, entries) == [err |-> err, entries |-> entries]

(* fs::read_dir(dir): the entries of the directory in the order of the       *)
(* filesystem, or an error, kept in the listing, when the directory is gone. *)
ReadDir(fsys, dir) ==
    IF ~IsDir(fsys, dir) THEN DirList(TRUE, <<>>)
    ELSE LET names == [i \in 1..Len(Children(fsys, dir)) |->
                          DirEntry(fsys, Children(fsys, dir)[i])]
         IN DirList(FALSE, IF dirOrder = "reverse" THEN Reverse(names) ELSE names)

Top(stk) == stk[Len(stk)]
Pop(stk) == SubSeq(stk, 1, Len(stk) - 1)

(* IntoIter::handle_entry: a directory is opened and pushed before it is     *)
(* yielded.                                                                  *)
Push(fsys, stk, dent) ==
    IF dent.is_dir THEN Append(stk, ReadDir(fsys, dent.path)) ELSE stk

(* mutant: filter() in place of filter_entry(): nothing is pruned *)
FilterEntryNoPrune(stk, dent) == stk

(* FilterEntry::next: an entry the predicate rejects is dropped, and         *)
(* skip_current_dir() pops the listing just pushed for it.                   *)
FilterEntry(stk, dent) ==
    IF is_interesting(dent.path) THEN stk
    ELSE IF dent.is_dir THEN Pop(stk) ELSE stk

(* mutant: the mapping of the scrape before is kept *)
KeptServices == services

(* HashMap::new() at the top of get_service_measurements() *)
NewServices == EmptyMap

-----------------------------------------------------------------------------
(* Spec: the serving loop of main() over a changing filesystem.              *)

Init ==
    /\ fs \in {InitialTree, NewerKernelTree}
    /\ pc = "idle"
    /\ panicAt = "none"
    /\ start = FALSE
    /\ stack = <<>>
    /\ services = EmptyMap
    /\ snapshot = {}
    /\ previous = {}
    /\ report_avg \in BOOLEAN
    /\ report_zeros \in BOOLEAN
    /\ requests = 0
    /\ responses = 0
    /\ walked = {}
    /\ processed = <<>>
    /\ changes = 0
    /\ dirOrder \in {"forward", "reverse"}

(* for request in server.incoming_requests(): get_service_measurements()     *)
(* starts with an empty mapping and a new walk.                              *)
Request ==
    /\ pc = "idle"
    /\ requests < MaxScrapes
    /\ pc' = "walking"
    /\ requests' = requests + 1
    /\ services' = NewServices
    /\ start' = TRUE
    /\ stack' = <<>>
    /\ walked' = {}
    /\ processed' = <<>>
    /\ UNCHANGED <<fs, panicAt, snapshot, previous, report_avg, report_zeros,
                   responses, changes, dirOrder>>

(* One entry out of the walk: handle_entry, then filter_entry(is_interesting), *)
(* then filter(is_pressure), then the loop body for an entry that passes.    *)
Visit(stk, dent) ==
    LET stk1 == FilterEntry(Push(fs, stk, dent), dent)
        rd   == OpenRead(fs, dent.path)
        r    == LoopBody(services, dent.path, rd)
    IN  /\ walked' = walked \cup {dent.path}
        /\ stack' = stk1
        /\ start' = FALSE
        /\ IF is_interesting(dent.path) /\ is_pressure(dent.path)
           THEN /\ services' = r.services
                /\ processed' = Append(processed, Run(dent.path, rd, r.outcome))
                /\ pc' = IF r.outcome = "panic" THEN "panicked" ELSE pc
                /\ panicAt' = IF r.outcome = "panic" THEN "parse" ELSE panicAt
           ELSE UNCHANGED <<services, processed, pc, panicAt>>
        /\ UNCHANGED <<fs, snapshot, previous, report_avg, report_zeros, requests,
                       responses, changes, dirOrder>>

(* IntoIter::next, first call: the root itself *)
WalkRoot ==
    /\ pc = "walking"
    /\ start
    /\ Visit(stack, DirEntry(fs, Root))

(* IntoIter::next: the next entry of the innermost open directory *)
WalkEntry ==
    /\ pc = "walking"
    /\ ~start
    /\ stack # <<>>
    /\ ~Top(stack).err
    /\ Top(stack).entries # <<>>
    /\ Visit([stack EXCEPT ![Len(stack)].entries = Tail(@)], Head(Top(stack).entries))

(* IntoIter::next: the innermost directory is exhausted *)
WalkPop ==
    /\ pc = "walking"
    /\ ~start
    /\ stack # <<>>
    /\ ~Top(stack).err
    /\ Top(stack).entries = <<>>
    /\ stack' = Pop(stack)
    /\ UNCHANGED <<fs, pc, panicAt, start, services, snapshot, previous, report_avg,
                   report_zeros, requests, responses, walked, processed, changes,
                   dirOrder>>

(* IntoIter::next yields the Err of a read_dir that failed; FilterEntry hands *)
(* it on, and filter(|e| is_pressure(&e.as_ref().unwrap())) unwraps it.       *)
WalkError ==
    /\ pc = "walking"
    /\ ~start
    /\ stack # <<>>
    /\ Top(stack).err
    /\ pc' = "panicked"
    /\ panicAt' = "walk"
    /\ stack' = [stack EXCEPT ![Len(stack)].err = FALSE]
    /\ UNCHANGED <<fs, start, services, snapshot, previous, report_avg, report_zeros,
                   requests, responses, walked, processed, changes, dirOrder>>

(* The walk is over: registry(&services, report_avg, report_zeros).gather(),  *)
(* encoded and sent as the response.                                         *)
Respond ==
    /\ pc = "walking"
    /\ ~start
    /\ stack = <<>>
    /\ snapshot' = registry(services, report_avg, report_zeros)
    /\ previous' = snapshot
    /\ responses' = responses + 1
    /\ pc' = "idle"
    /\ UNCHANGED <<fs, panicAt, start, stack, services, report_avg, report_zeros,
                   requests, walked, processed, changes, dirOrder>>

(* The environment: a cgroup is destroyed, with everything below it. *)
RemoveDir(dir) ==
    /\ pc \in {"idle", "walking"}
    /\ changes < MaxFsChanges
    /\ dir # Root
    /\ IsDir(fs, dir)
    /\ fs' = [q \in {q \in DOMAIN fs : ~IsPrefix(dir, q)} |-> fs[q]]
    /\ changes' = changes + 1
    /\ UNCHANGED <<pc, panicAt, start, stack, services, snapshot, previous, report_avg,
                   report_zeros, requests, responses, walked, processed, dirOrder>>

(* The environment: the kernel rewrites a pressure file, its stall time gone up. *)
Tick(path) ==
    /\ pc \in {"idle", "walking"}
    /\ changes < MaxFsChanges
    /\ path \in DOMAIN fs
    /\ fs[path].type = "file"
    /\ fs' = [fs EXCEPT ![path].lines = Advance(@)]
    /\ changes' = changes + 1
    /\ UNCHANGED <<pc, panicAt, start, stack, services, snapshot, previous, report_avg,
                   report_zeros, requests, responses, walked, processed, dirOrder>>

Next ==
    \/ Request
    \/ WalkRoot
    \/ WalkEntry
    \/ WalkPop
    \/ WalkError
    \/ Respond
    \/ \E dir \in Paths : RemoveDir(dir)
    \/ \E path \in Paths : Tick(path)

Spec == Init /\ [][Next]_vars

-----------------------------------------------------------------------------
(* SpecAggregate: the loop body of get_service_measurements() applied to any *)
(* sequence of candidates, whatever the walk would have yielded.             *)

CandPaths ==
    { <<cpu_p>>, <<w_p>>, <<a_slice, cpu_p>>, <<a_slice, memory_p>>,
      <<a_slice, io_p>>, <<a_slice, b_service, cpu_p>> }

CandReads ==
    {[ok |-> FALSE]}
    \cup {[ok |-> TRUE, lines |-> l] : l \in {<<>>, Busy, OnlySome, OnlyFull, Malformed}}

Quiet ==
    /\ fs = [path \in {Root} |-> Dir]
    /\ panicAt = "none"
    /\ start = FALSE
    /\ stack = <<>>
    /\ snapshot = {}
    /\ previous = {}
    /\ requests = 0
    /\ responses = 0
    /\ walked = {}
    /\ changes = 0
    /\ dirOrder = "forward"

AggInit ==
    /\ Quiet
    /\ pc = "input"
    /\ services = NewServices
    /\ processed = <<>>
    /\ report_avg = TRUE
    /\ report_zeros = TRUE

AggStep ==
    /\ pc = "input"
    /\ Len(processed) < MaxCands
    /\ \E path \in CandPaths, rd \in CandReads :
          LET r == LoopBody(services, path, rd) IN
          /\ services' = r.services
          /\ processed' = Append(processed, Run(path, rd, r.outcome))
          /\ pc' = IF r.outcome = "panic" THEN "panicked" ELSE pc
          /\ panicAt' = IF r.outcome = "panic" THEN "parse" ELSE panicAt
    /\ UNCHANGED <<fs, start, stack, snapshot, previous, report_avg, report_zeros,
                   requests, responses, walked, changes, dirOrder>>

AggNext == AggStep

SpecAggregate == AggInit /\ [][AggNext]_vars

-----------------------------------------------------------------------------
(* SpecRegistry: registry() applied to any mapping and any flags.            *)

AvgVals == {0, 5}
TotalVals == {0, 500000}

(* every record the parser can return for a line of the given kind *)
Records(kind) ==
    {ParsePsi(Line(kind, a10, a60, a300, t)).psi :
        a10 \in AvgVals, a60 \in AvgVals, a300 \in AvgVals, t \in TotalVals}

Opt(S) == {None} \cup {Some(x) : x \in S}

FullChoices == {None, Some(ParsePsi(FullIdle).psi), Some(ParsePsi(FullBusy).psi)}

MemoryChoices == {DefaultStats, PsiStats(Some(ParsePsi(SomeBusy).psi), None)}

RootChoices ==
    {EmptyMap,
     [k \in {"/"} |-> [cpu |-> PsiStats(Some(ParsePsi(SomeIdle).psi), None),
                       memory |-> DefaultStats,
                       io |-> PsiStats(Some(ParsePsi(SomeBusy).psi),
                                       Some(ParsePsi(FullIdle).psi))]]}

MappingInputs ==
    {Insert(root, "/a.slice",
            [cpu |-> PsiStats(some, full), memory |-> mem, io |-> DefaultStats]) :
        some \in Opt(Records("some")), full \in FullChoices,
        mem \in MemoryChoices, root \in RootChoices}

RegInit ==
    /\ Quiet
    /\ pc = "input"
    /\ services \in MappingInputs
    /\ processed = <<>>
    /\ report_avg \in BOOLEAN
    /\ report_zeros \in BOOLEAN

RegBuild ==
    /\ pc = "input"
    /\ snapshot' = registry(services, report_avg, report_zeros)
    /\ pc' = "built"
    /\ UNCHANGED <<fs, panicAt, start, stack, services, previous, report_avg,
                   report_zeros, requests, responses, walked, processed, changes,
                   dirOrder>>

RegNext == RegBuild

SpecRegistry == RegInit /\ [][RegNext]_vars

-----------------------------------------------------------------------------
(* Claims about registry(), under SpecRegistry.                              *)

Built == pc = "built"

Gauges == {AVG10, AVG60, AVG300}

AvgOf(data, gauge) ==
    CASE gauge = AVG10  -> data.avg10
      [] gauge = AVG60  -> data.avg60
      [] gauge = AVG300 -> data.avg300

(* the label combinations of the mapping that carry a record *)
WithData == {t \in Combos(services) : IsSome(services[t[1]][t[2]][t[3]])}

Rec(t) == Unwrap(services[t[1]][t[2]][t[3]])

(* C1: a pressure_total_seconds sample with labels (id, controller, kind) is *)
(* in the snapshot if and only if the PsiStats field is present and          *)
(* (report_zeros or the record's total is non-zero); it then carries the     *)
(* total in seconds; with report_zeros false and a zero total it is absent.  *)
C1_TotalPresence ==
    Built =>
        \A t \in Combos(services) :
            LET got == SamplesOf(snapshot, TOTAL, t[1], t[2], t[3]) IN
            IF t \in WithData /\ (report_zeros \/ Rec(t).total # 0)
            THEN got = {Sample(TOTAL, t[1], t[2], t[3], Quot(Rec(t).total, NanosPerSec))}
            ELSE got = {}

C1_Witness ==
    /\ Built
    /\ ~report_zeros
    /\ \E t \in WithData :
          Rec(t).total = 0 /\ SamplesOf(snapshot, TOTAL, t[1], t[2], t[3]) = {}
    /\ \E t \in WithData :
          Rec(t).total > 0 /\ SamplesOf(snapshot, TOTAL, t[1], t[2], t[3]) # {}

(* C2: for a combination with data, each of the three gauges is present if   *)
(* and only if report_avg and (report_zeros or that gauge's own average is   *)
(* greater than zero); with report_avg false no gauge sample exists at all.  *)
C2_AvgPresence ==
    Built =>
        /\ \A t \in WithData : \A g \in Gauges :
              LET got == SamplesOf(snapshot, g, t[1], t[2], t[3]) IN
              IF report_avg /\ (report_zeros \/ AvgOf(Rec(t), g) > 0)
              THEN got = {Sample(g, t[1], t[2], t[3], Quot(AvgOf(Rec(t), g), PercentScale))}
              ELSE got = {}
        /\ ~report_avg => \A s \in snapshot : s.metric \notin Gauges

C2_Witness ==
    /\ Built
    /\ report_avg
    /\ ~report_zeros
    /\ \E t \in WithData :
          /\ Rec(t).avg10 = 0
          /\ Rec(t).avg60 > 0
          /\ Rec(t).total = 0
          /\ SamplesOf(snapshot, AVG10, t[1], t[2], t[3]) = {}
          /\ SamplesOf(snapshot, AVG60, t[1], t[2], t[3]) # {}
          /\ SamplesOf(snapshot, TOTAL, t[1], t[2], t[3]) = {}

(* what C4 promises of one label combination *)
ZeroSuppressed(t) ==
    IF report_zeros
    THEN SamplesOf(snapshot, TOTAL, t[1], t[2], t[3])
            = {Sample(TOTAL, t[1], t[2], t[3], Quot(0, NanosPerSec))}
    ELSE LabelSamples(snapshot, t[1], t[2], t[3]) = {}

(* C4 as stated: a record with total = 0 and avg10 = 0 yields no sample of   *)
(* any metric when report_zeros is false, and exactly one                    *)
(* pressure_total_seconds sample valued 0 when report_zeros is true.         *)
C4_AsStated ==
    Built =>
        \A t \in WithData :
            (Rec(t).total = 0 /\ Rec(t).avg10 = 0) => ZeroSuppressed(t)

(* C4, amended: the same of a record whose total and all three averages are  *)
(* zero.                                                                     *)
C4_ZeroSuppression ==
    Built =>
        \A t \in WithData :
            (Rec(t).total = 0 /\ Rec(t).avg10 = 0 /\ Rec(t).avg60 = 0
             /\ Rec(t).avg300 = 0) => ZeroSuppressed(t)

C4_Witness ==
    /\ Built
    /\ report_avg
    /\ ~report_zeros
    /\ snapshot # {}
    /\ \E t \in WithData :
          /\ Rec(t).total = 0 /\ Rec(t).avg10 = 0 /\ Rec(t).avg60 = 0
          /\ Rec(t).avg300 = 0
          /\ LabelSamples(snapshot, t[1], t[2], t[3]) = {}

-----------------------------------------------------------------------------
(* Claims about a scrape, under Spec.                                        *)

Runs == {processed[i] : i \in 1..Len(processed)}

(* the runs of this scrape that read and parsed their file *)
OkRuns == {r \in Runs : r.outcome = "ok"}

(* a response has been sent and `processed` is the scrape it came from *)
Served == pc = "idle" /\ responses > 0

KindOf(line) == IF Len(line) > 0 THEN line[1] ELSE ""

HasKind(lines, kind) == \E i \in 1..Len(lines) : KindOf(lines[i]) = kind

(* the last line of the given kind *)
LastOfKind(lines, kind) ==
    lines[CHOOSE i \in 1..Len(lines) :
              /\ KindOf(lines[i]) = kind
              /\ \A j \in (i + 1)..Len(lines) : KindOf(lines[j]) # kind]

(* the samples a line of a file must give under the two flags *)
SamplesFromLine(id, c, k, line) ==
    (IF report_zeros \/ Field(line, "total") > 0
     THEN {Sample(TOTAL, id, c, k,
                  Quot(Field(line, "total") * NanosPerMicro, NanosPerSec))}
     ELSE {})
    \cup
    (IF report_avg /\ (report_zeros \/ Field(line, "avg10") > 0)
     THEN {Sample(AVG10, id, c, k, Quot(Field(line, "avg10"), PercentScale))}
     ELSE {})
    \cup
    (IF report_avg /\ (report_zeros \/ Field(line, "avg60") > 0)
     THEN {Sample(AVG60, id, c, k, Quot(Field(line, "avg60"), PercentScale))}
     ELSE {})
    \cup
    (IF report_avg /\ (report_zeros \/ Field(line, "avg300") > 0)
     THEN {Sample(AVG300, id, c, k, Quot(Field(line, "avg300"), PercentScale))}
     ELSE {})

(* the service path of each file of the tree, written out *)
ServicePath(path) ==
    CASE Parent(path) = Root                   -> "/"
      [] Parent(path) = <<a_slice>>            -> "/a.slice"
      [] Parent(path) = <<a_slice, b_service>> -> "/a.slice/b.service"
      [] Parent(path) = <<a_slice, c_scope>>   -> "/a.slice/c.scope"
      [] Parent(path) = <<x_mount>>            -> "/x.mount"
      [] Parent(path) = <<y_socket>>           -> "/y.socket"
      [] Parent(path) = <<z_scope>>            -> "/z.scope"
      [] OTHER                                 -> "?"

ControllerName(path) ==
    CASE file_name(path) = cpu_p    -> "cpu"
      [] file_name(path) = memory_p -> "memory"
      [] file_name(path) = io_p     -> "io"
      [] file_name(path) = w_p      -> "w"
      [] file_name(path) = d_p      -> "d"
      [] OTHER                      -> "?"

(* C3: after a scrape that read a pressure file with a full line and no some  *)
(* line, the snapshot has no kind="some" sample of any metric for that        *)
(* service and controller, whatever the flags, and its kind="full" samples    *)
(* are those of the parsed line; a kind whose PsiStats field is None has no   *)
(* sample at all.                                                             *)
C3_MissingKind ==
    Served =>
        /\ \A r \in OkRuns :
              (HasKind(r.rd.lines, "full") /\ ~HasKind(r.rd.lines, "some")) =>
                  /\ LabelSamples(snapshot, ServicePath(r.path),
                                  ControllerName(r.path), "some") = {}
                  /\ ControllerName(r.path) \in Controllers =>
                        LabelSamples(snapshot, ServicePath(r.path),
                                     ControllerName(r.path), "full")
                          = SamplesFromLine(ServicePath(r.path), ControllerName(r.path),
                                            "full", LastOfKind(r.rd.lines, "full"))
        /\ \A t \in Combos(services) :
              ~IsSome(services[t[1]][t[2]][t[3]]) =>
                  LabelSamples(snapshot, t[1], t[2], t[3]) = {}

C3_Witness ==
    /\ Served
    /\ report_zeros
    /\ \E r \in OkRuns :
          /\ r.path = <<a_slice, io_p>>
          /\ ~HasKind(r.rd.lines, "some")
          /\ HasKind(r.rd.lines, "full")
          /\ LabelSamples(snapshot, "/a.slice", "io", "full") # {}
          /\ LabelSamples(snapshot, "/a.slice", "io", "some") = {}

ExcludedName(name) ==
    \/ ~name.utf8
    \/ ends_with(name.bytes, ".mount")
    \/ ends_with(name.bytes, ".socket")
    \/ ends_with(name.bytes, ".scope")

(* C5: the walk never goes below an entry whose name ends in .mount, .socket *)
(* or .scope or is not valid text, at any depth; the locator never yields    *)
(* such an entry; every entry it yields has a name ending in .pressure; of   *)
(* the siblings x.mount, y.socket, z.scope and w.pressure only w.pressure is *)
(* yielded.                                                                  *)
C5_Locator ==
    /\ \A p \in walked : \A n \in 1..(Len(p) - 1) : ~ExcludedName(p[n])
    /\ \A r \in Runs :
          /\ r.path \in walked
          /\ ~ExcludedName(file_name(r.path))
          /\ ends_with(file_name(r.path).bytes, ".pressure")
    /\ Served =>
          {r.path : r \in Runs} \cap {<<x_mount>>, <<y_socket>>, <<z_scope>>, <<w_p>>}
              = {<<w_p>>}

C5_Witness ==
    /\ Served
    /\ {<<x_mount>>, <<y_socket>>, <<z_scope>>, <<raw_slice>>, <<a_slice, c_scope>>}
          \subseteq walked
    /\ {<<x_mount, cpu_p>>, <<raw_slice, cpu_p>>, <<a_slice, c_scope, cpu_p>>}
          \subseteq DOMAIN fs
    /\ <<w_p>> \in {r.path : r \in Runs}

(* the PsiStats a file's lines amount to *)
StatsOfLines(lines) ==
    PsiStats(IF HasKind(lines, "some")
             THEN Some(ParsePsi(LastOfKind(lines, "some")).psi) ELSE None,
             IF HasKind(lines, "full")
             THEN Some(ParsePsi(LastOfKind(lines, "full")).psi) ELSE None)

(* C6: a candidate whose open or read fails is skipped: the step that meets  *)
(* it leaves the mapping as it was and the walk goes on; and the scrape that *)
(* completes holds the data of every file that was read.                     *)
C6_SkipOnReadFailure ==
    /\ [][(/\ Len(processed') = Len(processed) + 1
           /\ ~processed'[Len(processed')].rd.ok)
          => (services' = services /\ pc' = "walking")]_vars
    /\ [](Served =>
            /\ DOMAIN services = {ServicePath(r.path) : r \in OkRuns}
            /\ \A r \in OkRuns :
                  ControllerName(r.path) \in Controllers =>
                      services[ServicePath(r.path)][ControllerName(r.path)]
                          = StatsOfLines(r.rd.lines))

C6_Witness ==
    /\ Served
    /\ \E r \in Runs : ~r.rd.ok /\ r.path = <<a_slice, b_service, memory_p>>
    /\ \E r \in Runs : ~r.rd.ok /\ r.path = <<d_p>>
    /\ \E r \in Runs : ~r.rd.ok /\ r.path \notin DOMAIN fs
    /\ \E r \in OkRuns : TRUE

(* C7: a change of the tree during a scrape is never fatal, a vanished       *)
(* directory that the walk was about to list included.                       *)
C7_ChangeNotFatal == pc = "panicked" => panicAt # "walk"

Unparsed(lines) == \E i \in 1..Len(lines) : ~ParsePsi(lines[i]).ok

(* C8: a line that does not parse in a file that was read ends the scrape:   *)
(* the file is the last one processed, it is not skipped, and the request    *)
(* gets no snapshot.                                                         *)
C8_ParseFailureFatal ==
    \A i \in 1..Len(processed) :
        (processed[i].rd.ok /\ Unparsed(processed[i].rd.lines)) =>
            /\ processed[i].outcome = "panic"
            /\ i = Len(processed)
            /\ pc = "panicked"
            /\ panicAt = "parse"
            /\ responses = requests - 1

C8_Witness ==
    /\ pc = "panicked"
    /\ panicAt = "parse"
    /\ OkRuns # {}
    /\ services # EmptyMap
    /\ responses = requests - 1

(* C9: the snapshot of a response is exactly what the files read during that *)
(* request give under the two flags: each pressure_total_seconds value is    *)
(* the total read in this scrape, in seconds, and a label combination with   *)
(* no file read in this scrape has no sample.                                *)
C9_FreshSnapshot ==
    Served =>
        snapshot = UNION {SamplesFromLine(ServicePath(r.path), ControllerName(r.path),
                                          k, LastOfKind(r.rd.lines, k)) :
                            <<r, k>> \in {x \in OkRuns \X Kinds :
                                            /\ ControllerName(x[1].path) \in Controllers
                                            /\ HasKind(x[1].rd.lines, x[2])}}

C9_Witness ==
    /\ Served
    /\ responses = 2
    /\ \E s \in previous : s.id = "/a.slice" /\ s.metric = TOTAL /\ s.value[1] > 0
    /\ \A s \in snapshot : s.id # "/a.slice"
    /\ snapshot # {}

-----------------------------------------------------------------------------
(* Claims about the aggregation, under SpecAggregate.                        *)

(* the runs that wrote the record of a service and a controller *)
Writes(s, c) ==
    {i \in 1..Len(processed) :
        /\ processed[i].outcome = "ok"
        /\ ServicePath(processed[i].path) = s
        /\ ControllerName(processed[i].path) = c}

Latest(S) == CHOOSE i \in S : \A j \in S : j <= i

(* C10: the mapping has exactly one entry per service path that a processed  *)
(* file belongs to, keyed by the parent directory below the mountpoint with  *)
(* a leading '/'; the record of a service and a controller is that of the    *)
(* latest file processed for the pair, whole, and the default when there was *)
(* none.                                                                     *)
C10_OneEntryPerService ==
    /\ DOMAIN services = {ServicePath(r.path) : r \in OkRuns}
    /\ \A s \in DOMAIN services : \A c \in Controllers :
          services[s][c] =
              IF Writes(s, c) = {} THEN DefaultStats
              ELSE StatsOfLines(processed[Latest(Writes(s, c))].rd.lines)

C10_Witness ==
    /\ Len(processed) = 2
    /\ processed[1].path = processed[2].path
    /\ processed[1].outcome = "ok"
    /\ processed[2].outcome = "ok"
    /\ HasKind(processed[1].rd.lines, "some")
    /\ ~HasKind(processed[2].rd.lines, "some")
    /\ ControllerName(processed[1].path) = "cpu"
    /\ services[ServicePath(processed[1].path)].cpu.some = None
    /\ IsSome(services[ServicePath(processed[1].path)].cpu.full)

====
